---- MODULE Spec2Model ----
(***************************************************************************)
(* Model of catan/grid.py: the coordinate tables, the direction algebra,   *)
(* adjacency resolution and board enumeration of the 19-tile hex board.    *)
(*                                                                         *)
(* The module is a set of pure functions over constant tables.  The state  *)
(* machine records one call at a time: the function called (fn), its       *)
(* arguments (args) and what the call produced (ret), which is either a    *)
(* Python value or a raised exception.                                     *)
(*                                                                         *)
(* Python values are tagged records, so that a tuple, an int, a str, None, *)
(* a list and a set are never equal to each other, as in Python.           *)
(***************************************************************************)
EXTENDS Integers, Sequences, FiniteSets, TLC

VARIABLES fn, args, ret

vars == <<fn, args, ret>>

(* ------------------------------ bounds --------------------------------- *)

\* tile identifiers handed to the functions range over 0..MaxTileIdInput
MaxTileIdInput == 20
\* caller-made 2-tuples range over (0..MaxCol) x (0..MaxRow)
MaxCol == 22
MaxRow == 12
\* caller-made offsets range over (-MaxOff..MaxOff) x (-MaxOff..MaxOff)
MaxOff == 4

(* --------------------------- Python values ----------------------------- *)

PyInt(n) == [ty |-> "int", int |-> n]
PyTuple(s) == [ty |-> "tuple", tup |-> s]
PyStr(s) == [ty |-> "str", str |-> s]
PyList(s) == [ty |-> "list", list |-> s]
PySet(S) == [ty |-> "set", set |-> S]
PyNone == [ty |-> "NoneType"]
Raise(e) == [ty |-> "raise", exc |-> e]

IsRaise(v) == v.ty = "raise"

\* Python's binary + : tuples concatenate, ints add, anything else (of the
\* types that occur here) is a TypeError.  Operands are evaluated first.
add(a, b) ==
    IF IsRaise(a) THEN a
    ELSE IF IsRaise(b) THEN b
    ELSE IF a.ty = "tuple" /\ b.ty = "tuple" THEN PyTuple(a.tup \o b.tup)
    ELSE IF a.ty = "int" /\ b.ty = "int" THEN PyInt(a.int + b.int)
    ELSE Raise("TypeError")

\* Python's binary - : defined on ints; tuple has no __sub__.
sub(a, b) ==
    IF IsRaise(a) THEN a
    ELSE IF IsRaise(b) THEN b
    ELSE IF a.ty = "int" /\ b.ty = "int" THEN PyInt(a.int - b.int)
    ELSE Raise("TypeError")

(* ------------------------------ tables --------------------------------- *)
\* A dict is the sequence of its <<key, value>> items in insertion order.

\* the table with tile 12 mistyped onto tile 1's coordinate
_tile_id_to_coord_dup ==
    << <<1, <<9, 3>> >>, <<12, <<9, 3>> >>, <<11, <<17, 3>> >>,
       <<2, <<7, 5>> >>, <<13, <<11, 5>> >>, <<18, <<15, 5>> >>, <<10, <<19, 5>> >>,
       <<3, <<5, 7>> >>, <<14, <<9, 7>> >>, <<19, <<13, 7>> >>, <<17, <<17, 7>> >>,
       <<9, <<21, 7>> >>,
       <<4, <<7, 9>> >>, <<15, <<11, 9>> >>, <<16, <<15, 9>> >>, <<8, <<19, 9>> >>,
       <<5, <<9, 11>> >>, <<6, <<13, 11>> >>, <<7, <<17, 11>> >> >>

_tile_id_to_coord ==
    << <<1, <<9, 3>> >>, <<12, <<13, 3>> >>, <<11, <<17, 3>> >>,
       <<2, <<7, 5>> >>, <<13, <<11, 5>> >>, <<18, <<15, 5>> >>, <<10, <<19, 5>> >>,
       <<3, <<5, 7>> >>, <<14, <<9, 7>> >>, <<19, <<13, 7>> >>, <<17, <<17, 7>> >>,
       <<9, <<21, 7>> >>,
       <<4, <<7, 9>> >>, <<15, <<11, 9>> >>, <<16, <<15, 9>> >>, <<8, <<19, 9>> >>,
       <<5, <<9, 11>> >>, <<6, <<13, 11>> >>, <<7, <<17, 11>> >> >>

_tile_tile_offsets ==
    << << <<-2, -2>>, "NW" >>, << <<-4, 0>>, "W" >>, << <<-2, 2>>, "SW" >>,
       << <<2, 2>>, "SE" >>, << <<4, 0>>, "E" >>, << <<2, -2>>, "NE" >> >>

_tile_node_offsets ==
    << << <<0, -1>>, "N" >>, << <<-2, -1>>, "NW" >>, << <<-2, 1>>, "SW" >>,
       << <<0, 1>>, "S" >>, << <<2, 1>>, "SE" >>, << <<2, -1>>, "NE" >> >>

_tile_edge_offsets ==
    << << <<-1, -1>>, "NW" >>, << <<-2, 0>>, "W" >>, << <<-1, 1>>, "SW" >>,
       << <<1, 1>>, "SE" >>, << <<2, 0>>, "E" >>, << <<1, -1>>, "NE" >> >>

(* ------------------------- coordinate tables --------------------------- *)

\* tile_id_to_coord without its except clause: the KeyError escapes
tile_id_to_coord_raising(tile_id) ==
    IF tile_id.ty = "int"
       /\ \E i \in 1..Len(_tile_id_to_coord) : _tile_id_to_coord[i][1] = tile_id.int
    THEN LET i == CHOOSE i \in 1..Len(_tile_id_to_coord) :
                     _tile_id_to_coord[i][1] = tile_id.int
         IN  PyTuple(_tile_id_to_coord[i][2])
    ELSE Raise("KeyError")

\* try: return _tile_id_to_coord[tile_id]  except KeyError: log; return -1
tile_id_to_coord(tile_id) ==
    IF tile_id.ty = "int"
       /\ \E i \in 1..Len(_tile_id_to_coord) : _tile_id_to_coord[i][1] = tile_id.int
    THEN LET i == CHOOSE i \in 1..Len(_tile_id_to_coord) :
                     _tile_id_to_coord[i][1] = tile_id.int
         IN  PyTuple(_tile_id_to_coord[i][2])
    ELSE PyInt(-1)

\* for i, c in items: if c == coord: return i.  The first item that matches
\* wins.  When none does, the raise statement formats hex(coord), which is
\* itself a TypeError unless coord is an int.
tile_id_from_coord(coord) ==
    LET hits == {i \in 1..Len(_tile_id_to_coord) :
                    PyTuple(_tile_id_to_coord[i][2]) = coord}
    IN  IF hits # {}
        THEN LET first == CHOOSE i \in hits : \A j \in hits : i <= j
             IN  PyInt(_tile_id_to_coord[first][1])
        ELSE IF coord.ty = "int" THEN Raise("Exception")
        ELSE Raise("TypeError")

\* set(_tile_id_to_coord.keys())
legal_tile_ids ==
    PySet({PyInt(_tile_id_to_coord[i][1]) : i \in 1..Len(_tile_id_to_coord)})

\* set(_tile_id_to_coord.values())
legal_tile_coords ==
    PySet({PyTuple(_tile_id_to_coord[i][2]) : i \in 1..Len(_tile_id_to_coord)})

(* -------------------------- direction algebra -------------------------- *)

\* try: return table[offset]
\* except KeyError: logging.critical('...{:x}'.format(offset)); return 'ZZ'
\* '{:x}'.format(offset) is a TypeError for a tuple, so only an int offset
\* reaches the 'ZZ' return.
offset_to_direction(table, offset) ==
    IF offset.ty = "tuple" /\ \E i \in 1..Len(table) : table[i][1] = offset.tup
    THEN LET i == CHOOSE i \in 1..Len(table) : table[i][1] = offset.tup
         IN  PyStr(table[i][2])
    ELSE IF offset.ty = "int" THEN PyStr("ZZ")
    ELSE Raise("TypeError")

tile_tile_offset_to_direction(offset) == offset_to_direction(_tile_tile_offsets, offset)

tile_node_offset_to_direction(offset) == offset_to_direction(_tile_node_offsets, offset)

tile_edge_offset_to_direction(offset) == offset_to_direction(_tile_edge_offsets, offset)

(* ------------------------ adjacency resolution ------------------------- *)

\* the for loop of tile_id_in_direction from item i on; a matching direction
\* whose target is not a legal tile does not leave the loop
RECURSIVE tile_id_in_direction_loop(_, _, _)
tile_id_in_direction_loop(coord_from, direction, i) ==
    IF i > Len(_tile_tile_offsets) THEN PyNone
    ELSE IF PyStr(_tile_tile_offsets[i][2]) = direction
    THEN LET coord_to == add(coord_from, PyTuple(_tile_tile_offsets[i][1]))
         IN  IF IsRaise(coord_to) THEN coord_to
             ELSE IF coord_to \in legal_tile_coords.set
             THEN tile_id_from_coord(coord_to)
             ELSE tile_id_in_direction_loop(coord_from, direction, i + 1)
    ELSE tile_id_in_direction_loop(coord_from, direction, i + 1)

tile_id_in_direction(from_tile_id, direction) ==
    tile_id_in_direction_loop(tile_id_to_coord(from_tile_id), direction, 1)

direction_to_tile(from_tile_id, to_tile_id) ==
    LET coord_from == tile_id_to_coord(from_tile_id)
        coord_to == tile_id_to_coord(to_tile_id)
        offset == sub(coord_to, coord_from)
    IN  IF IsRaise(offset) THEN offset
        ELSE tile_tile_offset_to_direction(offset)

\* coord = tile_id_to_coord(tile_id); for offset in table.keys():
\*     out.append(coord + offset)
\* The first append that raises ends the call.
touching_tile(table, tile_id) ==
    LET coord == tile_id_to_coord(tile_id)
        sums == [i \in 1..Len(table) |-> add(coord, PyTuple(table[i][1]))]
        bad == {i \in 1..Len(table) : IsRaise(sums[i])}
    IN  IF bad # {}
        THEN sums[CHOOSE i \in bad : \A j \in bad : i <= j]
        ELSE PyList(sums)

edges_touching_tile(tile_id) == touching_tile(_tile_edge_offsets, tile_id)

nodes_touching_tile(tile_id) == touching_tile(_tile_node_offsets, tile_id)

\* a, b = edge_coord; if a % 2 == 0: [(a+1, b), (a-1, b)] else [(a, b-1), (a, b+1)]
\* The unpacking is a ValueError for a tuple that has not two components and
\* a TypeError for a value that is not iterable.
nodes_touching_edge(edge_coord) ==
    IF edge_coord.ty # "tuple" THEN Raise("TypeError")
    ELSE IF Len(edge_coord.tup) # 2 THEN Raise("ValueError")
    ELSE LET a == edge_coord.tup[1]
             b == edge_coord.tup[2]
         IN  IF a % 2 = 0
             THEN PyList(<<PyTuple(<<a + 1, b>>), PyTuple(<<a - 1, b>>)>>)
             ELSE PyList(<<PyTuple(<<a, b - 1>>), PyTuple(<<a, b + 1>>)>>)

(* -------------------------- board enumeration -------------------------- *)

\* the set filled by: for tile_id in legal_tile_ids(): for x in touching(tile_id): add(x)
legal_coords(table) ==
    LET bad == {t \in legal_tile_ids.set : IsRaise(touching_tile(table, t))}
    IN  IF bad # {}
        THEN touching_tile(table, CHOOSE t \in bad : \A u \in bad : t.int <= u.int)
        ELSE PySet(UNION {{touching_tile(table, t).list[i] : i \in 1..Len(table)} :
                            t \in legal_tile_ids.set})

legal_edge_coords == legal_coords(_tile_edge_offsets)

legal_node_coords == legal_coords(_tile_node_offsets)

\* the for loop of coastal_edges from element i of es on, edges being the
\* list built so far
RECURSIVE coastal_edges_loop(_, _, _, _, _)
coastal_edges_loop(tile_id, tile_coord, es, i, edges) ==
    IF i > Len(es) THEN PyList(edges)
    ELSE LET offset == sub(es[i], tile_coord)
             dirn == IF IsRaise(offset) THEN offset
                     ELSE tile_edge_offset_to_direction(offset)
             there == IF IsRaise(dirn) THEN dirn
                      ELSE tile_id_in_direction(tile_id, dirn)
         IN  IF IsRaise(there) THEN there
             ELSE coastal_edges_loop(tile_id, tile_coord, es, i + 1,
                      IF there = PyNone THEN Append(edges, es[i]) ELSE edges)

coastal_edges(tile_id) ==
    LET tile_coord == tile_id_to_coord(tile_id)
        es == edges_touching_tile(tile_id)
    IN  IF IsRaise(es) THEN es
        ELSE coastal_edges_loop(tile_id, tile_coord, es.list, 1, <<>>)

\* list(filter(lambda tid: len(coastal_edges(tid)) > 0, legal_tile_ids()))
\* from tile identifier n on; a set of the ints 1..19 is iterated in
\* ascending order
RECURSIVE coastal_tile_ids_loop(_, _)
coastal_tile_ids_loop(n, out) ==
    IF n > Cardinality(legal_tile_ids.set) THEN PyList(out)
    ELSE LET ce == coastal_edges(PyInt(n))
         IN  IF IsRaise(ce) THEN ce
             ELSE coastal_tile_ids_loop(n + 1,
                      IF Len(ce.list) > 0 THEN Append(out, PyInt(n)) ELSE out)

coastal_tile_ids == coastal_tile_ids_loop(1, <<>>)

\* a (tile_id, dirn) 2-tuple of coastal_coords
PyPair(tile_id, dirn) == [ty |-> "tuple", pair |-> <<tile_id, dirn>>]

\* the inner for loop of coastal_coords from element i of es on
RECURSIVE coastal_coords_inner(_, _, _, _, _)
coastal_coords_inner(tile_id, tile_coord, es, i, coast) ==
    IF i > Len(es) THEN PyList(coast)
    ELSE LET offset == sub(es[i], tile_coord)
             dirn == IF IsRaise(offset) THEN offset
                     ELSE tile_edge_offset_to_direction(offset)
             there == IF IsRaise(dirn) THEN dirn
                      ELSE tile_id_in_direction(tile_id, dirn)
         IN  IF IsRaise(there) THEN there
             ELSE coastal_coords_inner(tile_id, tile_coord, es, i + 1,
                      IF there = PyNone THEN Append(coast, PyPair(tile_id, dirn))
                      ELSE coast)

\* the outer for loop of coastal_coords from element k of tids on
RECURSIVE coastal_coords_outer(_, _, _)
coastal_coords_outer(tids, k, coast) ==
    IF k > Len(tids) THEN PyList(coast)
    ELSE LET tile_coord == tile_id_to_coord(tids[k])
             ce == coastal_edges(tids[k])
             inner == IF IsRaise(ce) THEN ce
                      ELSE coastal_coords_inner(tids[k], tile_coord, ce.list, 1, coast)
         IN  IF IsRaise(inner) THEN inner
             ELSE coastal_coords_outer(tids, k + 1, inner.list)

coastal_coords ==
    LET tids == coastal_tile_ids
    IN  IF IsRaise(tids) THEN tids
        ELSE coastal_coords_outer(tids.list, 1, <<>>)

(* ------------------------------ inputs --------------------------------- *)

TileIdInputs == {PyInt(n) : n \in 0..MaxTileIdInput}
CoordInputs == {PyTuple(<<a, b>>) : a \in 0..MaxCol, b \in 0..MaxRow}
OffsetInputs == {PyTuple(<<a, b>>) : a \in (0 - MaxOff)..MaxOff, b \in (0 - MaxOff)..MaxOff}
                    \cup {PyInt(0)}
DirectionInputs == {PyStr(d) : d \in {"NW", "W", "SW", "SE", "E", "NE", "N", "S"}}

(* --------------------------- state machine ----------------------------- *)

Init ==
    /\ fn = "import"
    /\ args = <<>>
    /\ ret = PyNone

call_tile_id_to_coord ==
    \E tile_id \in TileIdInputs :
        /\ fn' = "tile_id_to_coord"
        /\ args' = <<tile_id>>
        /\ ret' = tile_id_to_coord(tile_id)

call_tile_id_from_coord ==
    \E coord \in CoordInputs \cup {PyInt(-1)} :
        /\ fn' = "tile_id_from_coord"
        /\ args' = <<coord>>
        /\ ret' = tile_id_from_coord(coord)

call_tile_id_in_direction ==
    \E from_tile_id \in TileIdInputs, direction \in DirectionInputs :
        /\ fn' = "tile_id_in_direction"
        /\ args' = <<from_tile_id, direction>>
        /\ ret' = tile_id_in_direction(from_tile_id, direction)

call_direction_to_tile ==
    \E from_tile_id \in TileIdInputs, to_tile_id \in TileIdInputs :
        /\ fn' = "direction_to_tile"
        /\ args' = <<from_tile_id, to_tile_id>>
        /\ ret' = direction_to_tile(from_tile_id, to_tile_id)

call_tile_tile_offset_to_direction ==
    \E offset \in OffsetInputs :
        /\ fn' = "tile_tile_offset_to_direction"
        /\ args' = <<offset>>
        /\ ret' = tile_tile_offset_to_direction(offset)

call_tile_node_offset_to_direction ==
    \E offset \in OffsetInputs :
        /\ fn' = "tile_node_offset_to_direction"
        /\ args' = <<offset>>
        /\ ret' = tile_node_offset_to_direction(offset)

call_tile_edge_offset_to_direction ==
    \E offset \in OffsetInputs :
        /\ fn' = "tile_edge_offset_to_direction"
        /\ args' = <<offset>>
        /\ ret' = tile_edge_offset_to_direction(offset)

call_edges_touching_tile ==
    \E tile_id \in TileIdInputs :
        /\ fn' = "edges_touching_tile"
        /\ args' = <<tile_id>>
        /\ ret' = edges_touching_tile(tile_id)

call_nodes_touching_tile ==
    \E tile_id \in TileIdInputs :
        /\ fn' = "nodes_touching_tile"
        /\ args' = <<tile_id>>
        /\ ret' = nodes_touching_tile(tile_id)

call_nodes_touching_edge ==
    \E edge_coord \in legal_edge_coords.set \cup CoordInputs :
        /\ fn' = "nodes_touching_edge"
        /\ args' = <<edge_coord>>
        /\ ret' = nodes_touching_edge(edge_coord)

call_legal_edge_coords ==
    /\ fn' = "legal_edge_coords"
    /\ args' = <<>>
    /\ ret' = legal_edge_coords

call_legal_node_coords ==
    /\ fn' = "legal_node_coords"
    /\ args' = <<>>
    /\ ret' = legal_node_coords

call_legal_tile_ids ==
    /\ fn' = "legal_tile_ids"
    /\ args' = <<>>
    /\ ret' = legal_tile_ids

call_legal_tile_coords ==
    /\ fn' = "legal_tile_coords"
    /\ args' = <<>>
    /\ ret' = legal_tile_coords

call_coastal_edges ==
    \E tile_id \in TileIdInputs :
        /\ fn' = "coastal_edges"
        /\ args' = <<tile_id>>
        /\ ret' = coastal_edges(tile_id)

call_coastal_tile_ids ==
    /\ fn' = "coastal_tile_ids"
    /\ args' = <<>>
    /\ ret' = coastal_tile_ids

call_coastal_coords ==
    /\ fn' = "coastal_coords"
    /\ args' = <<>>
    /\ ret' = coastal_coords

Next ==
    \/ call_tile_id_to_coord
    \/ call_tile_id_from_coord
    \/ call_tile_id_in_direction
    \/ call_direction_to_tile
    \/ call_tile_tile_offset_to_direction
    \/ call_tile_node_offset_to_direction
    \/ call_tile_edge_offset_to_direction
    \/ call_edges_touching_tile
    \/ call_nodes_touching_tile
    \/ call_nodes_touching_edge
    \/ call_legal_edge_coords
    \/ call_legal_node_coords
    \/ call_legal_tile_ids
    \/ call_legal_tile_coords
    \/ call_coastal_edges
    \/ call_coastal_tile_ids
    \/ call_coastal_coords

Spec == Init /\ [][Next]_vars

(* ------------------------ vocabulary of the claims --------------------- *)

\* the coordinate the table gives tile t, as a pair of integers
Coord(t) ==
    LET i == CHOOSE i \in 1..Len(_tile_id_to_coord) : _tile_id_to_coord[i][1] = t
    IN  _tile_id_to_coord[i][2]

\* component-wise sum and difference of two pairs
VecAdd(c, o) == <<c[1] + o[1], c[2] + o[2]>>
VecSub(c, o) == <<c[1] - o[1], c[2] - o[2]>>

LegalIds == {_tile_id_to_coord[i][1] : i \in 1..Len(_tile_id_to_coord)}

\* the tiles at pair c (at most one when the table is injective)
TilesAt(c) == {u \in LegalIds : Coord(u) = c}

InList(x, v) == \E k \in 1..Len(v.list) : v.list[k] = x

\* a list of n pairwise distinct 2-component coordinates
IsDistinctCoords(v, n) ==
    /\ v.ty = "list"
    /\ Len(v.list) = n
    /\ \A k \in 1..n : v.list[k].ty = "tuple" /\ Len(v.list[k].tup) = 2
    /\ \A k, l \in 1..n : k # l => v.list[k] # v.list[l]

(* -------------------------------- C1 ----------------------------------- *)

\* C1: for every legal tile t and tile-tile direction d,
\* tile_id_in_direction(t, d) returns the tile at coord(t) + offset(d) when
\* there is one and None otherwise (so (1, 'E') gives 12 and (1, 'W') None).
C1_TileIdInDirection ==
    \A t \in LegalIds, i \in 1..Len(_tile_tile_offsets) :
        (fn = "tile_id_in_direction"
            /\ args = <<PyInt(t), PyStr(_tile_tile_offsets[i][2])>>)
        => LET there == TilesAt(VecAdd(Coord(t), _tile_tile_offsets[i][1]))
           IN  IF there # {} THEN ret \in {PyInt(u) : u \in there}
               ELSE ret = PyNone

(* -------------------------------- C2 ----------------------------------- *)

\* C2: if tile_id_in_direction(t, d) yields a tile u, then
\* direction_to_tile(t, u) = d and tile_id_in_direction(u, opposite(d)) = t.
Opposite(d) ==
    CASE d = "NW" -> "SE" [] d = "SE" -> "NW"
      [] d = "W" -> "E"   [] d = "E" -> "W"
      [] d = "SW" -> "NE" [] d = "NE" -> "SW"

C2_InverseConsistency ==
    \A t \in LegalIds, i \in 1..Len(_tile_tile_offsets) :
        (fn = "tile_id_in_direction"
            /\ args = <<PyInt(t), PyStr(_tile_tile_offsets[i][2])>>
            /\ ret.ty = "int")
        => /\ direction_to_tile(PyInt(t), ret) = PyStr(_tile_tile_offsets[i][2])
           /\ tile_id_in_direction(ret, PyStr(Opposite(_tile_tile_offsets[i][2])))
                  = PyInt(t)

\* The case C2 is about: a call on a legal tile that yields a tile.  No
\* reachable state satisfies it (its negation is an invariant), so
\* C2_InverseConsistency holds only for want of a case.
C2_YieldsTile ==
    /\ fn = "tile_id_in_direction"
    /\ args[1].int \in LegalIds
    /\ ret.ty = "int"

C2_NeverYieldsTile == ~C2_YieldsTile

(* -------------------------------- C3 ----------------------------------- *)

\* C3: tile_id_from_coord(tile_id_to_coord(t)) = t for every legal t, and no
\* two legal ids share a coordinate.
C3_RoundTrip ==
    /\ \A t \in 1..19 :
        (fn = "tile_id_to_coord" /\ args = <<PyInt(t)>>)
            => tile_id_from_coord(ret) = PyInt(t)
    /\ \A t \in 1..19 :
        (fn = "tile_id_from_coord" /\ args = <<tile_id_to_coord(PyInt(t))>>)
            => ret = PyInt(t)
    /\ \A t, u \in 1..19 :
        (fn = "tile_id_to_coord" /\ args = <<PyInt(t)>> /\ u # t)
            => ret # tile_id_to_coord(PyInt(u))

\* tile 7's coordinate (17, 11), produced by tile_id_to_coord, maps back to 7
C3_Witness ==
    /\ fn = "tile_id_to_coord"
    /\ args = <<PyInt(7)>>
    /\ ret = PyTuple(<<17, 11>>)
    /\ tile_id_from_coord(ret) = PyInt(7)

(* -------------------------------- C4 ----------------------------------- *)

\* C4: legal_tile_ids() has 19 elements, legal_edge_coords() 72 and
\* legal_node_coords() 54.
C4_BoardSizes ==
    /\ fn = "legal_tile_ids" => ret.ty = "set" /\ Cardinality(ret.set) = 19
    /\ fn = "legal_edge_coords" => ret.ty = "set" /\ Cardinality(ret.set) = 72
    /\ fn = "legal_node_coords" => ret.ty = "set" /\ Cardinality(ret.set) = 54

(* -------------------------------- C5 ----------------------------------- *)

\* C5: for every legal tile t, edges_touching_tile(t) and
\* nodes_touching_tile(t) are 6 pairwise distinct 2-component coordinates:
\* coord(t) plus each edge offset, resp. node offset, component-wise.
C5_TouchingTile ==
    \A t \in LegalIds :
        /\ (fn = "edges_touching_tile" /\ args = <<PyInt(t)>>)
            => /\ IsDistinctCoords(ret, 6)
               /\ \A i \in 1..Len(_tile_edge_offsets) :
                    InList(PyTuple(VecAdd(Coord(t), _tile_edge_offsets[i][1])), ret)
        /\ (fn = "nodes_touching_tile" /\ args = <<PyInt(t)>>)
            => /\ IsDistinctCoords(ret, 6)
               /\ \A i \in 1..Len(_tile_node_offsets) :
                    InList(PyTuple(VecAdd(Coord(t), _tile_node_offsets[i][1])), ret)

(* -------------------------------- C6 ----------------------------------- *)

\* C6: for every e in legal_edge_coords(), nodes_touching_edge(e) is 2
\* distinct coordinates, both in legal_node_coords(): (a+1,b),(a-1,b) for an
\* even first component a and (a,b-1),(a,b+1) for an odd one.
C6_EdgeNodeBinding ==
    (fn = "nodes_touching_edge" /\ args[1] \in legal_edge_coords.set)
    => /\ IsDistinctCoords(ret, 2)
       /\ \A k \in 1..2 : ret.list[k] \in legal_node_coords.set
       /\ LET a == args[1].tup[1]
              b == args[1].tup[2]
          IN  IF a % 2 = 0
              THEN ret.list = <<PyTuple(<<a + 1, b>>), PyTuple(<<a - 1, b>>)>>
              ELSE ret.list = <<PyTuple(<<a, b - 1>>), PyTuple(<<a, b + 1>>)>>

(* -------------------------------- C7 ----------------------------------- *)

\* C7: for every legal tile t, coastal_edges(t) holds exactly the edges e
\* touching t for which tile_id_in_direction(t, direction_of(e)) is None,
\* direction_of(e) being the tile-edge direction of e - coord(t); for the
\* other edges touching t that call yields a legal tile.
C7_CoastalEdges ==
    \A t \in LegalIds :
        (fn = "coastal_edges" /\ args = <<PyInt(t)>>)
        => /\ ret.ty = "list"
           /\ LET es == edges_touching_tile(PyInt(t))
              IN  \A k \in 1..Len(es.list) :
                    \E i \in 1..Len(_tile_edge_offsets) :
                        LET there == tile_id_in_direction(PyInt(t),
                                         PyStr(_tile_edge_offsets[i][2]))
                        IN  /\ es.list[k].ty = "tuple"
                            /\ Len(es.list[k].tup) = 2
                            /\ VecSub(es.list[k].tup, Coord(t)) = _tile_edge_offsets[i][1]
                            /\ InList(es.list[k], ret) <=> there = PyNone
                            /\ ~InList(es.list[k], ret) => there \in legal_tile_ids.set

(* -------------------------------- C8 ----------------------------------- *)

\* C8 as stated: tile_id_to_coord(id) returns a coordinate for exactly the 19
\* legal ids and fails with an error for every other id, never returning a
\* sentinel in place of a coordinate.
C8_InvalidIdFails ==
    fn = "tile_id_to_coord"
    => IF args[1].int \in 1..19
       THEN ret.ty = "tuple" /\ Len(ret.tup) = 2
       ELSE IsRaise(ret)

\* C8 as amended: tile_id_to_coord(id) returns a coordinate for exactly the
\* 19 legal ids; for every other id it raises nothing and returns the int
\* -1, which is not a coordinate.
C8_InvalidIdSentinel ==
    fn = "tile_id_to_coord"
    => IF args[1].int \in 1..19
       THEN ret = PyTuple(Coord(args[1].int)) /\ Len(ret.tup) = 2
       ELSE ret = PyInt(-1)

\* tile_id_to_coord(0) has returned -1
C8_Witness ==
    /\ fn = "tile_id_to_coord"
    /\ args = <<PyInt(0)>>
    /\ ret = PyInt(-1)

(* -------------------------------- C9 ----------------------------------- *)

\* C9: for legal tiles a, b, direction_to_tile(a, b) returns the direction
\* label of coord(b) - coord(a) when that is one of the six tile-tile
\* offsets, and otherwise (a = b included) fails with an error.
C9_DirectionToTile ==
    \A a, b \in LegalIds :
        (fn = "direction_to_tile" /\ args = <<PyInt(a), PyInt(b)>>)
        => LET hits == {i \in 1..Len(_tile_tile_offsets) :
                           VecSub(Coord(b), Coord(a)) = _tile_tile_offsets[i][1]}
           IN  IF hits # {}
               THEN \E i \in hits : ret = PyStr(_tile_tile_offsets[i][2])
               ELSE IsRaise(ret)

(* -------------------------------- C10 ---------------------------------- *)

\* C10: coastal_coords() is exactly the pairs (t, d), each once, with t a
\* legal tile, d a tile-edge direction and tile_id_in_direction(t, d) None;
\* coastal_tile_ids() is exactly the legal tiles with a coastal edge, and
\* holds every t of coastal_coords().
CoastPairs ==
    {PyPair(PyInt(t), PyStr(_tile_edge_offsets[i][2])) :
        <<t, i>> \in {p \in LegalIds \X (1..Len(_tile_edge_offsets)) :
            tile_id_in_direction(PyInt(p[1]), PyStr(_tile_edge_offsets[p[2]][2]))
                = PyNone}}

C10_CoastalCoords ==
    /\ fn = "coastal_coords"
        => /\ ret.ty = "list"
           /\ {ret.list[k] : k \in 1..Len(ret.list)} = CoastPairs
           /\ Len(ret.list) = Cardinality(CoastPairs)
    /\ fn = "coastal_tile_ids"
        => /\ ret.ty = "list"
           /\ {ret.list[k] : k \in 1..Len(ret.list)}
                = {p.pair[1] : p \in CoastPairs}

====
